---- MODULE Spec2Model ----
(***************************************************************************)
(* Resume classification pipeline of Job-Role-Prediction: the text         *)
(* normalizer clean_resume, the category table lookup and the two          *)
(* front-ends (getCategories/home in API.py, main in app.py).              *)
(*                                                                         *)
(* A text is a sequence of characters; a character is a string.  ASCII     *)
(* characters are written as themselves, characters outside ASCII by their *)
(* code point name ("U+00E9"); the grave accent is written "U+0060".       *)
(***************************************************************************)
EXTENDS Integers, Sequences, FiniteSets, TLC

(* ---------------------------------------------------------------------- *)
(* Character classes used by the regular expressions                      *)
(* ---------------------------------------------------------------------- *)

\* characters with ordinal >= 0x80 that the model knows
NonAsciiChars == {"U+00E9", "U+00A0", "U+4E2D"}

\* characters with ordinal > 0xff (subset of NonAsciiChars)
WideChars == {"U+4E2D"}

\* \s of a str pattern: ASCII whitespace and Unicode whitespace
WhitespaceChars == {" ", "\t", "\n", "\r", "\f", "U+00A0"}

\* the argument of re.escape in the punctuation substitution (32 characters)
Punctuation ==
  {"!", "\"", "#", "$", "%", "&", "'", "(", ")", "*", "+", ",", "-", ".", "/",
   ":", ";", "<", "=", ">", "?", "@", "[", "\\", "]", "^", "_", "U+0060", "{", "|",
   "}", "~"}

IsSpace(c) == c \in WhitespaceChars

IsNonAsciiWide(c) == c \in WideChars

\* the class of characters outside \x00-\x7f
IsNonAscii(c) == c \in NonAsciiChars

\* the character class built from re.escape of the punctuation string
IsPunct(c) == c \in Punctuation

(* ---------------------------------------------------------------------- *)
(* re.sub: leftmost, non-overlapping, greedy matches replaced by repl.     *)
(* A matcher gives the index just after the match that starts at i, or i  *)
(* when the pattern does not match at i (no pattern here matches the      *)
(* empty string).  "[punctuation]" stands for the character class built   *)
(* from re.escape of the punctuation string.                              *)
(* ---------------------------------------------------------------------- *)

RECURSIVE SkipNonSpace(_, _)
\* \S* from position i: index of the first whitespace at or after i
SkipNonSpace(s, i) ==
  IF i > Len(s) \/ IsSpace(s[i]) THEN i ELSE SkipNonSpace(s, i + 1)

RECURSIVE SkipSpace(_, _)
\* \s* from position i: index of the first non-whitespace at or after i
SkipSpace(s, i) ==
  IF i > Len(s) \/ ~IsSpace(s[i]) THEN i ELSE SkipSpace(s, i + 1)

\* http\S+\s*
match_url(s, i) ==
  IF /\ i + 4 <= Len(s)
     /\ s[i] = "h" /\ s[i + 1] = "t" /\ s[i + 2] = "t" /\ s[i + 3] = "p"
     /\ ~IsSpace(s[i + 4])
  THEN SkipSpace(s, SkipNonSpace(s, i + 4))
  ELSE i

\* RT
match_rt_only(s, i) ==
  IF i + 1 <= Len(s) /\ s[i] = "R" /\ s[i + 1] = "T" THEN i + 2 ELSE i

\* RT|cc
match_rt_cc(s, i) ==
  IF /\ i + 1 <= Len(s)
     /\ \/ s[i] = "R" /\ s[i + 1] = "T"
        \/ s[i] = "c" /\ s[i + 1] = "c"
  THEN i + 2
  ELSE i

\* #\S  (one character after the sign, not a run)
match_hashtag_one(s, i) ==
  IF i + 1 <= Len(s) /\ s[i] = "#" /\ ~IsSpace(s[i + 1]) THEN i + 2 ELSE i

\* #\S+
match_hashtag(s, i) ==
  IF i + 1 <= Len(s) /\ s[i] = "#" /\ ~IsSpace(s[i + 1])
  THEN SkipNonSpace(s, i + 1)
  ELSE i

\* @\S+
match_mention(s, i) ==
  IF i + 1 <= Len(s) /\ s[i] = "@" /\ ~IsSpace(s[i + 1])
  THEN SkipNonSpace(s, i + 1)
  ELSE i

match_punct(s, i) == IF IsPunct(s[i]) THEN i + 1 ELSE i

\* the class of characters outside \x00-\xff
match_non_ascii_wide(s, i) == IF IsNonAsciiWide(s[i]) THEN i + 1 ELSE i

\* the class of characters outside \x00-\x7f
match_non_ascii(s, i) == IF IsNonAscii(s[i]) THEN i + 1 ELSE i

\* \s+
match_whitespace(s, i) == IF IsSpace(s[i]) THEN SkipSpace(s, i) ELSE i

\* the compiled pattern tried at position i of s: the index just after the
\* match, or i when there is none
re_match_end(pattern, s, i) ==
  CASE pattern = "http\\S+\\s*" -> match_url(s, i)
    [] pattern = "RT|cc" -> match_rt_cc(s, i)
    [] pattern = "#\\S+" -> match_hashtag(s, i)
    [] pattern = "@\\S+" -> match_mention(s, i)
    [] pattern = "[punctuation]" -> match_punct(s, i)
    [] pattern = "[^\\x00-\\x7f]" -> match_non_ascii(s, i)
    [] pattern = "\\s+" -> match_whitespace(s, i)

RECURSIVE re_sub_from(_, _, _, _)
re_sub_from(pattern, repl, s, i) ==
  IF i > Len(s) THEN <<>>
  ELSE LET e == re_match_end(pattern, s, i)
       IN  IF e > i THEN repl \o re_sub_from(pattern, repl, s, e)
           ELSE <<s[i]>> \o re_sub_from(pattern, repl, s, i + 1)

\* re.sub(pattern, repl, string)
re_sub(pattern, repl, s) == re_sub_from(pattern, repl, s, 1)

\* str.strip(): drop leading and trailing whitespace
strip(s) ==
  LET keep == {i \in 1..Len(s) : ~IsSpace(s[i])}
  IN  IF keep = {} THEN <<>>
      ELSE LET lo == CHOOSE i \in keep : \A j \in keep : i <= j
               hi == CHOOSE i \in keep : \A j \in keep : j <= i
           IN  SubSeq(s, lo, hi)

\* API.py clean_resume: the seven substitutions; clean_text is returned as
\* the last of them leaves it
API_clean_resume(resume_text) ==
  LET t1 == re_sub("http\\S+\\s*", <<" ">>, resume_text)
      t2 == re_sub("RT|cc", <<" ">>, t1)
      t3 == re_sub("#\\S+", <<>>, t2)
      t4 == re_sub("@\\S+", <<" ", " ">>, t3)
      t5 == re_sub("[punctuation]", <<" ">>, t4)
      t6 == re_sub("[^\\x00-\\x7f]", <<" ">>, t5)
      t7 == re_sub("\\s+", <<" ">>, t6)
  IN  t7

\* app.py clean_resume: the same seven substitutions, then
\* return clean_text.strip()
app_clean_resume(resume_text) ==
  LET t1 == re_sub("http\\S+\\s*", <<" ">>, resume_text)
      t2 == re_sub("RT|cc", <<" ">>, t1)
      t3 == re_sub("#\\S+", <<>>, t2)
      t4 == re_sub("@\\S+", <<" ", " ">>, t3)
      t5 == re_sub("[punctuation]", <<" ">>, t4)
      t6 == re_sub("[^\\x00-\\x7f]", <<" ">>, t5)
      t7 == re_sub("\\s+", <<" ">>, t6)
  IN  strip(t7)

(* ---------------------------------------------------------------------- *)
(* Category tables and lookup                                             *)
(* ---------------------------------------------------------------------- *)

\* API.py: the dict literal built inside getCategories
category_mapping ==
  (15 :> "Java Developer") @@ (23 :> "Testing") @@ (8 :> "DevOps Engineer") @@
  (20 :> "SDE") @@ (24 :> "Web Designing") @@ (12 :> "HR") @@ (13 :> "Hadoop") @@
  (3 :> "Blockchain") @@ (10 :> "ETL Developer") @@ (18 :> "Operations Manager") @@
  (6 :> "Data Science") @@ (22 :> "Sales") @@ (16 :> "Mechanical Engineer") @@
  (1 :> "Arts") @@ (7 :> "Database") @@ (11 :> "Electrical Engineering") @@
  (14 :> "Health and fitness") @@ (19 :> "PMO") @@ (4 :> "Business Analyst") @@
  (9 :> "DotNet Developer") @@ (2 :> "Automation Testing") @@
  (17 :> "Network Security Engineer") @@ (21 :> "SAP Developer") @@
  (5 :> "Civil Engineer") @@ (0 :> "Advocate")

\* app.py: the module-level dict
CATEGORY_MAPPING ==
  (15 :> "Java Developer") @@ (23 :> "Testing") @@ (8 :> "DevOps Engineer") @@ (20 :> "SDE") @@
  (24 :> "Web Designing") @@ (12 :> "HR") @@ (13 :> "Hadoop") @@ (3 :> "Blockchain") @@
  (10 :> "ETL Developer") @@ (18 :> "Operations Manager") @@ (6 :> "Data Science") @@ (22 :> "Sales") @@
  (16 :> "Mechanical Engineer") @@ (1 :> "Arts") @@ (7 :> "Database") @@ (11 :> "Electrical Engineering") @@
  (14 :> "Health and fitness") @@ (19 :> "PMO") @@ (4 :> "Business Analyst") @@ (9 :> "DotNet Developer") @@
  (2 :> "Automation Testing") @@ (17 :> "Network Security Engineer") @@ (21 :> "SAP Developer") @@
  (5 :> "Civil Engineer") @@ (0 :> "Advocate")

\* d[key]: a missing key raises KeyError
dict_index(d, key, default) == IF key \in DOMAIN d THEN d[key] ELSE "KeyError"

\* d.get(key, default)
dict_get(d, key, default) == IF key \in DOMAIN d THEN d[key] ELSE default

(* ---------------------------------------------------------------------- *)
(* The two loaded artifacts.  They are opaque to the repository: the      *)
(* vectorizer is a fixed vocabulary, transform counts its terms in each   *)
(* document of the batch; the classifier is a fixed linear rule, predict  *)
(* gives one integer label per row of the batch.  Neither call writes.    *)
(* ---------------------------------------------------------------------- *)

Vocabulary == {"c", "R"}

Count(doc, term) == Cardinality({k \in 1..Len(doc) : doc[k] = term})

\* tfidfd.transform(raw_documents)
transform(vectorizer, raw_documents) ==
  [k \in 1..Len(raw_documents) |->
     [t \in vectorizer.vocabulary |-> Count(raw_documents[k], t)]]

RECURSIVE Total(_, _)
Total(row, terms) ==
  IF terms = {} THEN 0
  ELSE LET t == CHOOSE u \in terms : TRUE
       IN  row[t] + Total(row, terms \ {t})

\* clf.predict(X)
predict(classifier, X) ==
  [k \in 1..Len(X) |->
     classifier.intercept + classifier.weight * Total(X[k], DOMAIN X[k])]

\* the classifier that always answers 15, and one whose answer depends on
\* the features and leaves 0..24 for some documents
Classifiers ==
  {[intercept |-> 15, weight |-> 0], [intercept |-> 0 - 1, weight |-> 13]}

Vectorizers == {[vocabulary |-> Vocabulary]}

(* ---------------------------------------------------------------------- *)
(* State                                                                  *)
(* ---------------------------------------------------------------------- *)

VARIABLES
  globals,   \* module-level objects of each front-end process
  calls,     \* the local variables and position of each classification call
  probe      \* a direct application of clean_resume or of the table lookup

vars == <<globals, calls, probe>>

NumCalls == 2
CallIds == 1..NumCalls

None == <<"None">>

\* raw texts the front-ends are asked to classify
RawTexts ==
  { <<>>,
    <<"#", "c">>,
    <<" ", "c">>,
    <<"c", ",", "R">> }

NoResponse == [kind |-> "none", body |-> None]

IdleCall ==
  [frontend |-> "none", pc |-> "idle", resume_text |-> None,
   cleaned_resume |-> None, input_features |-> None, prediction_id |-> None,
   category_name |-> None, raised |-> "none", log |-> <<>>,
   response |-> NoResponse]

NoProbe == [pc |-> "off"]

\* pickle.load of clf.pkl and tfidf.pkl (both files load the same artifacts);
\* app.py also binds CATEGORY_MAPPING at module level
LoadGlobals(classifier, vectorizer) ==
  [API |-> [clf |-> classifier, tfidfd |-> vectorizer],
   app |-> [clf |-> classifier, tfidfd |-> vectorizer,
            CATEGORY_MAPPING |-> CATEGORY_MAPPING]]

Init ==
  /\ \E classifier \in Classifiers, vectorizer \in Vectorizers :
       globals = LoadGlobals(classifier, vectorizer)
  /\ calls = [i \in CallIds |-> IdleCall]
  /\ probe = NoProbe

\* assignment to a local variable of call i
\* (as if cleaned_resume were one module-level variable: a call that
\* assigns it overwrites the value another call is about to vectorize)
SetLocalShared(cs, i, upd) ==
  [j \in DOMAIN cs |->
     IF j = i THEN upd
     ELSE IF upd.pc = "transform" /\ cs[j].pc = "transform"
          THEN [cs[j] EXCEPT !.cleaned_resume = upd.cleaned_resume]
          ELSE cs[j]]
SetLocal(cs, i, upd) == [cs EXCEPT ![i] = upd]

(* ---------------------------------------------------------------------- *)
(* API.py: home and getCategories                                         *)
(* ---------------------------------------------------------------------- *)

\* home, a GET request: data = request.form['data']; getCategories(data)
API_Request(i) ==
  /\ calls[i].pc = "idle"
  /\ \E data \in RawTexts :
       calls' = SetLocal(calls, i,
                  [calls[i] EXCEPT !.frontend = "API", !.pc = "clean",
                                   !.resume_text = data])
  /\ UNCHANGED <<globals, probe>>

\* home, any other method: the view falls through and returns None, which
\* the server answers with an internal error; getCategories is not called
API_RequestOther(i) ==
  /\ calls[i].pc = "idle"
  /\ calls' = SetLocal(calls, i,
                [calls[i] EXCEPT !.frontend = "API", !.pc = "http500",
                    !.response = [kind |-> "error", body |-> "500"]])
  /\ UNCHANGED <<globals, probe>>

\* cleaned_resume = clean_resume(resume_text)
API_Clean(i) ==
  /\ calls[i].frontend = "API" /\ calls[i].pc = "clean"
  /\ calls' = SetLocal(calls, i,
                [calls[i] EXCEPT !.cleaned_resume = API_clean_resume(calls[i].resume_text),
                                 !.log = Append(@, <<"clean_resume", calls[i].resume_text>>),
                                 !.pc = "transform"])
  /\ UNCHANGED <<globals, probe>>

\* the batch handed to transform (the raw text instead of the cleaned one)
API_batch_raw(c) == <<c.resume_text>>
\* the batch handed to transform: [cleaned_resume]
API_batch(c) == <<c.cleaned_resume>>

\* an exception leaves getCategories and home (neither has a handler): the
\* server answers the request with an internal error
API_unhandled(c, origin) ==
  [c EXCEPT !.raised = origin, !.pc = "http500",
            !.response = [kind |-> "error", body |-> "500"]]

\* input_features = tfidfd.transform([cleaned_resume])
API_Transform(i) ==
  /\ calls[i].frontend = "API" /\ calls[i].pc = "transform"
  /\ LET c == [calls[i] EXCEPT !.log = Append(@, <<"transform", API_batch(calls[i])>>)]
     IN  \/ calls' = SetLocal(calls, i,
                       [c EXCEPT !.input_features =
                                    transform(globals.API.tfidfd, API_batch(c)),
                                 !.pc = "predict"])
         \/ calls' = SetLocal(calls, i, API_unhandled(c, "transform"))
  /\ UNCHANGED <<globals, probe>>

\* prediction_id = clf.predict(input_features)[0]
API_Predict(i) ==
  /\ calls[i].frontend = "API" /\ calls[i].pc = "predict"
  /\ LET c == [calls[i] EXCEPT !.log = Append(@, <<"predict", calls[i].input_features>>)]
     IN  \/ calls' = SetLocal(calls, i,
                       [c EXCEPT !.prediction_id =
                                    predict(globals.API.clf, c.input_features)[1],
                                 !.pc = "lookup"])
         \/ calls' = SetLocal(calls, i, API_unhandled(c, "predict"))
  /\ UNCHANGED <<globals, probe>>

\* category_name = category_mapping.get(prediction_id, "Unknown")
API_Lookup(i) ==
  /\ calls[i].frontend = "API" /\ calls[i].pc = "lookup"
  /\ calls' = SetLocal(calls, i,
                [calls[i] EXCEPT !.category_name =
                                    dict_get(category_mapping, calls[i].prediction_id, "Unknown"),
                                 !.log = Append(@, <<"get", calls[i].prediction_id>>),
                                 !.pc = "return"])
  /\ UNCHANGED <<globals, probe>>

\* return category_name; home: return jsonify({'data': category})
API_Return(i) ==
  /\ calls[i].frontend = "API" /\ calls[i].pc = "return"
  /\ calls' = SetLocal(calls, i,
                [calls[i] EXCEPT !.response = [kind |-> "category",
                                               body |-> calls[i].category_name],
                                 !.pc = "responded"])
  /\ UNCHANGED <<globals, probe>>

(* ---------------------------------------------------------------------- *)
(* app.py: main, the branch taken when a file was uploaded                 *)
(* ---------------------------------------------------------------------- *)

\* except Exception as e: answered as a default result
app_except_default(c, origin) ==
  [c EXCEPT !.raised = origin, !.pc = "displayed", !.category_name = "Unknown",
            !.response = [kind |-> "category", body |-> "Unknown"]]
\* except Exception as e: st.error("An unexpected error occurred: ...")
app_except(c, origin) ==
  [c EXCEPT !.raised = origin, !.pc = "error_shown",
            !.response = [kind |-> "error", body |-> "unexpected"]]

\* uploaded_file is not None: resume_text is the extracted PDF text or the
\* decoded bytes of the file; the extraction may raise
app_Upload(i) ==
  /\ calls[i].pc = "idle"
  /\ LET c == [calls[i] EXCEPT !.frontend = "app"]
     IN  \/ \E text \in RawTexts :
              calls' = SetLocal(calls, i,
                         [c EXCEPT !.pc = "check", !.resume_text = text])
         \/ calls' = SetLocal(calls, i, app_except(c, "extract"))
  /\ UNCHANGED <<globals, probe>>

\* if not resume_text.strip(): st.error("Could not extract text. ..."); return
app_Check(i) ==
  /\ calls[i].frontend = "app" /\ calls[i].pc = "check"
  /\ IF strip(calls[i].resume_text) = <<>>
     THEN calls' = SetLocal(calls, i,
                     [calls[i] EXCEPT !.pc = "error_shown",
                        !.response = [kind |-> "error", body |-> "empty"]])
     ELSE calls' = SetLocal(calls, i, [calls[i] EXCEPT !.pc = "clean"])
  /\ UNCHANGED <<globals, probe>>

\* cleaned_resume = clean_resume(resume_text)
app_Clean(i) ==
  /\ calls[i].frontend = "app" /\ calls[i].pc = "clean"
  /\ calls' = SetLocal(calls, i,
                [calls[i] EXCEPT !.cleaned_resume = app_clean_resume(calls[i].resume_text),
                                 !.log = Append(@, <<"clean_resume", calls[i].resume_text>>),
                                 !.pc = "transform"])
  /\ UNCHANGED <<globals, probe>>

\* the batch handed to transform: [cleaned_resume]
app_batch(c) == <<c.cleaned_resume>>

\* input_features = tfidfd.transform([cleaned_resume])
app_Transform(i) ==
  /\ calls[i].frontend = "app" /\ calls[i].pc = "transform"
  /\ LET c == [calls[i] EXCEPT !.log = Append(@, <<"transform", app_batch(calls[i])>>)]
     IN  \/ calls' = SetLocal(calls, i,
                       [c EXCEPT !.input_features =
                                    transform(globals.app.tfidfd, app_batch(c)),
                                 !.pc = "predict"])
         \/ calls' = SetLocal(calls, i, app_except(c, "transform"))
  /\ UNCHANGED <<globals, probe>>

\* prediction_id = clf.predict(input_features)[0]
app_Predict(i) ==
  /\ calls[i].frontend = "app" /\ calls[i].pc = "predict"
  /\ LET c == [calls[i] EXCEPT !.log = Append(@, <<"predict", calls[i].input_features>>)]
     IN  \/ calls' = SetLocal(calls, i,
                       [c EXCEPT !.prediction_id =
                                    predict(globals.app.clf, c.input_features)[1],
                                 !.pc = "lookup"])
         \/ calls' = SetLocal(calls, i, app_except(c, "predict"))
  /\ UNCHANGED <<globals, probe>>

\* category_name = CATEGORY_MAPPING.get(prediction_id, "Unknown")
app_Lookup(i) ==
  /\ calls[i].frontend = "app" /\ calls[i].pc = "lookup"
  /\ calls' = SetLocal(calls, i,
                [calls[i] EXCEPT !.category_name =
                                    dict_get(globals.app.CATEGORY_MAPPING,
                                             calls[i].prediction_id, "Unknown"),
                                 !.log = Append(@, <<"get", calls[i].prediction_id>>),
                                 !.pc = "display"])
  /\ UNCHANGED <<globals, probe>>

\* the result container: st.markdown(... {category_name} ...)
app_Display(i) ==
  /\ calls[i].frontend = "app" /\ calls[i].pc = "display"
  /\ calls' = SetLocal(calls, i,
                [calls[i] EXCEPT !.response = [kind |-> "category",
                                               body |-> calls[i].category_name],
                                 !.pc = "displayed"])
  /\ UNCHANGED <<globals, probe>>

CallStep(i) ==
    \/ API_Request(i)
    \/ API_RequestOther(i)
    \/ API_Clean(i)
    \/ API_Transform(i)
    \/ API_Predict(i)
    \/ API_Lookup(i)
    \/ API_Return(i)
    \/ app_Upload(i)
    \/ app_Check(i)
    \/ app_Clean(i)
    \/ app_Transform(i)
    \/ app_Predict(i)
    \/ app_Lookup(i)
    \/ app_Display(i)

Next == \E i \in CallIds : CallStep(i)

Spec == Init /\ [][Next]_vars

(* ---------------------------------------------------------------------- *)
(* clean_resume applied directly, once and then again to its own result   *)
(* ---------------------------------------------------------------------- *)

MaxTokens == 4

\* pieces the probed texts are built from: the halves of "http", the
\* letters of "RT" and "cc", both signs, a hashtag, a letter and a whitespace outside
\* ASCII, a space and a line break
Tokens ==
  { <<"h", "t">>, <<"t", "p">>, <<"R">>, <<"T">>, <<"c">>, <<"#">>, <<"#", "c">>, <<"@">>,
    <<"U+00E9">>, <<"U+00A0">>, <<" ">>, <<"\n">> }

RECURSIVE Texts(_)
Texts(n) ==
  IF n = 0 THEN {<<>>}
  ELSE LET shorter == Texts(n - 1)
       IN  shorter \cup {t \o k : t \in shorter, k \in Tokens}

Fixture == <<"V","i","s","i","t"," ","h","t","t","p",":","/","/","e","x","a","m","p","l","e",".","c","o","m"," ","n","o","w","!"," ","#","h","i","r","i","n","g"," ","@","s","o","m","e","o","n","e">>


ProbeTexts == Texts(MaxTokens) \cup {Fixture}

InitClean ==
  /\ globals = LoadGlobals(CHOOSE k \in Classifiers : k.weight = 0,
                           CHOOSE v \in Vectorizers : TRUE)
  /\ calls = [i \in CallIds |-> IdleCall]
  /\ \E impl \in {"API", "app"}, text \in ProbeTexts :
       probe = [pc |-> "start", impl |-> impl, resume_text |-> text,
                clean_text |-> None, again_text |-> None]

API_CleanCall ==
  /\ probe.pc = "start" /\ probe.impl = "API"
  /\ probe' = [probe EXCEPT !.clean_text = API_clean_resume(probe.resume_text),
                            !.pc = "cleaned"]
  /\ UNCHANGED <<globals, calls>>

app_CleanCall ==
  /\ probe.pc = "start" /\ probe.impl = "app"
  /\ probe' = [probe EXCEPT !.clean_text = app_clean_resume(probe.resume_text),
                            !.pc = "cleaned"]
  /\ UNCHANGED <<globals, calls>>

API_CleanAgain ==
  /\ probe.pc = "cleaned" /\ probe.impl = "API"
  /\ probe' = [probe EXCEPT !.again_text = API_clean_resume(probe.clean_text),
                            !.pc = "recleaned"]
  /\ UNCHANGED <<globals, calls>>

app_CleanAgain ==
  /\ probe.pc = "cleaned" /\ probe.impl = "app"
  /\ probe' = [probe EXCEPT !.again_text = app_clean_resume(probe.clean_text),
                            !.pc = "recleaned"]
  /\ UNCHANGED <<globals, calls>>

NextClean == API_CleanCall \/ app_CleanCall \/ API_CleanAgain \/ app_CleanAgain

SpecClean == InitClean /\ [][NextClean]_vars

(* ---------------------------------------------------------------------- *)
(* The table lookup applied directly to every label of a range            *)
(* ---------------------------------------------------------------------- *)

\* how far the probed labels reach below 0 and above 24
Margin == 3
Labels == (0 - Margin)..(24 + Margin)

InitResolve ==
  /\ globals = LoadGlobals(CHOOSE k \in Classifiers : k.weight = 0,
                           CHOOSE v \in Vectorizers : TRUE)
  /\ calls = [i \in CallIds |-> IdleCall]
  /\ \E impl \in {"API", "app"}, label \in Labels :
       probe = [pc |-> "start", impl |-> impl, prediction_id |-> label,
                category_name |-> None]

API_LookupCall ==
  /\ probe.pc = "start" /\ probe.impl = "API"
  /\ probe' = [probe EXCEPT !.category_name =
                               dict_get(category_mapping, probe.prediction_id, "Unknown"),
                            !.pc = "resolved"]
  /\ UNCHANGED <<globals, calls>>

app_LookupCall ==
  /\ probe.pc = "start" /\ probe.impl = "app"
  /\ probe' = [probe EXCEPT !.category_name =
                               dict_get(globals.app.CATEGORY_MAPPING,
                                        probe.prediction_id, "Unknown"),
                            !.pc = "resolved"]
  /\ UNCHANGED <<globals, calls>>

NextResolve == API_LookupCall \/ app_LookupCall

SpecResolve == InitResolve /\ [][NextResolve]_vars
(* ---------------------------------------------------------------------- *)
(* Properties                                                             *)
(* ---------------------------------------------------------------------- *)

Finished(c) == c.pc \in {"responded", "http500", "displayed", "error_shown"}

Invoked(c, op) == \E k \in DOMAIN c.log : c.log[k][1] = op

\* the eight normalization steps in their stated order
NormalForm(text) ==
  LET step1 == re_sub("http\\S+\\s*", <<" ">>, text)
      step2 == re_sub("RT|cc", <<" ">>, step1)
      step3 == re_sub("#\\S+", <<>>, step2)
      step4 == re_sub("@\\S+", <<" ", " ">>, step3)
      step5 == re_sub("[punctuation]", <<" ">>, step4)
      step6 == re_sub("[^\\x00-\\x7f]", <<" ">>, step5)
      step7 == re_sub("\\s+", <<" ">>, step6)
      step8 == strip(step7)
  IN  step8

\* clean_resume of the front-end a call runs in
clean_of(frontend, text) ==
  IF frontend = "API" THEN API_clean_resume(text) ELSE app_clean_resume(text)

table_of(frontend) ==
  IF frontend = "API" THEN category_mapping ELSE globals.app.CATEGORY_MAPPING

VisitNow == <<"V", "i", "s", "i", "t", " ", "n", "o", "w">>

\* the category table as the specification lists it, label L at index L + 1
CategoryNames ==
  << "Advocate", "Arts", "Automation Testing", "Blockchain", "Business Analyst",
     "Civil Engineer", "Data Science", "Database", "DevOps Engineer",
     "DotNet Developer", "ETL Developer", "Electrical Engineering", "HR",
     "Hadoop", "Health and fitness", "Java Developer", "Mechanical Engineer",
     "Network Security Engineer", "Operations Manager", "PMO", "SDE",
     "SAP Developer", "Sales", "Testing", "Web Designing" >>

\* C1: a call whose raw text normalizes to the empty string ends with the
\* empty-input error and never invokes the vectorizer's transform.
C1_EmptyInputRejected ==
  \A i \in CallIds :
    LET c == calls[i]
    IN  (c.resume_text # None /\ NormalForm(c.resume_text) = <<>>) =>
          /\ ~Invoked(c, "transform")
          /\ Finished(c) => c.response = [kind |-> "error", body |-> "empty"]

\* C2: the lookup gives label L in 0..24 the name the fixed table lists for
\* L and gives every other label "Unknown", in API.py and in app.py alike.
C2_Resolve ==
  probe.pc = "resolved" =>
    probe.category_name =
      IF probe.prediction_id \in 0..24
      THEN CategoryNames[probe.prediction_id + 1]
      ELSE "Unknown"

C2_Witness ==
  /\ probe.pc = "resolved" /\ probe.impl = "app"
  /\ probe.prediction_id = 25 /\ probe.category_name = "Unknown"

\* the invocations of a call that runs to its end on raw text `text`
FullLog(frontend, text) ==
  LET cleaned == clean_of(frontend, text)
      features == transform(globals[frontend].tfidfd, <<cleaned>>)
      label == predict(globals[frontend].clf, features)[1]
  IN  << <<"clean_resume", text>>, <<"transform", <<cleaned>> >>,
         <<"predict", features>>, <<"get", label>> >>

IsPrefix(a, b) == Len(a) <= Len(b) /\ a = SubSeq(b, 1, Len(a))

\* C3: a call on a raw text whose normalized form is non-empty invokes
\* clean_resume, transform, predict and the lookup once each and in this
\* order, transform on the one-element batch of the cleaned text and predict
\* on transform's result; when no artifact raises, it answers the table name
\* of predict's first element (Java Developer under the always-15 classifier).
C3_PipelineOrder ==
  \A i \in CallIds :
    LET c == calls[i]
    IN  (c.resume_text # None /\ clean_of(c.frontend, c.resume_text) # <<>>) =>
          /\ IsPrefix(c.log, FullLog(c.frontend, c.resume_text))
          /\ (Finished(c) /\ c.raised = "none") =>
               /\ c.log = FullLog(c.frontend, c.resume_text)
               /\ c.response = [kind |-> "category",
                                body |-> dict_get(table_of(c.frontend),
                                                  c.log[4][2], "Unknown")]
               /\ globals[c.frontend].clf.weight = 0 =>
                    c.response.body = "Java Developer"

C3_Witness ==
  \E i \in CallIds :
    /\ calls[i].frontend = "API" /\ calls[i].pc = "responded"
    /\ calls[i].resume_text = <<"c", ",", "R">>
    /\ calls[i].log[2] = <<"transform", << <<"c", " ", "R">> >> >>
    /\ calls[i].response.body = "Java Developer"

\* C4: clean_resume returns the result of the eight steps in order; the
\* text "Visit http://example.com now! #hiring @someone" gives "Visit now".
C4_EightSteps ==
  probe.pc = "cleaned" =>
    /\ probe.clean_text = NormalForm(probe.resume_text)
    /\ probe.resume_text = Fixture => probe.clean_text = VisitNow

\* C5: cleaning the result of clean_resume again changes nothing.
C5_Idempotent ==
  probe.pc = "recleaned" => probe.again_text = probe.clean_text

C5_Witness ==
  /\ probe.pc = "recleaned" /\ probe.impl = "app"
  /\ probe.resume_text = <<"R", "#", "c", "T">>
  /\ probe.clean_text = <<"R">> /\ probe.again_text = <<"R">>

\* C6: the result of clean_resume holds no punctuation character and no
\* character outside ASCII.
C6_NoPunctNoNonAscii ==
  probe.pc = "cleaned" =>
    \A k \in DOMAIN probe.clean_text :
      probe.clean_text[k] \notin Punctuation \cup NonAsciiChars

C6_Witness ==
  /\ probe.pc = "cleaned" /\ probe.impl = "API"
  /\ probe.resume_text = <<"c", "U+00E9", "#", " ">>
  /\ probe.clean_text = <<"c", " ">>

\* C7: in the result of clean_resume every whitespace character is a single
\* space, no two spaces are adjacent and neither end is whitespace.
C7_WhitespaceNormalForm ==
  probe.pc = "cleaned" =>
    LET t == probe.clean_text
    IN  /\ \A k \in DOMAIN t : t[k] \in WhitespaceChars => t[k] = " "
        /\ \A k \in 1..(Len(t) - 1) : ~(t[k] = " " /\ t[k + 1] = " ")
        /\ t # <<>> => (t[1] \notin WhitespaceChars /\ t[Len(t)] \notin WhitespaceChars)

\* C8: once transform or predict has raised, the call is over with an error
\* answer: no category is returned or shown, and the call takes no further
\* step, so neither transform nor predict runs again.
C8_FailureReported ==
  \A i \in CallIds :
    LET c == calls[i]
    IN  c.raised \in {"transform", "predict"} =>
          /\ c.response.kind = "error"
          /\ c.category_name = None
          /\ c.log[Len(c.log)][1] = c.raised
          /\ Cardinality({k \in DOMAIN c.log : c.log[k][1] = "transform"}) = 1
          /\ Cardinality({k \in DOMAIN c.log : c.log[k][1] = "predict"}) <= 1
          /\ ~ENABLED CallStep(i)

C8_Witness ==
  \E i \in CallIds :
    /\ calls[i].frontend = "app" /\ calls[i].raised = "predict"
    /\ calls[i].pc = "error_shown"
    /\ calls[i].response = [kind |-> "error", body |-> "unexpected"]

\* the category a call on raw text `text` returns when it runs alone
Sequential(frontend, text) ==
  dict_get(table_of(frontend), FullLog(frontend, text)[4][2], "Unknown")

\* C9: in every interleaving each call answers the category it answers when
\* run alone, no step writes the module-level objects, and a step of one
\* call leaves the local values of every other call as they were.
C9_NoInterference ==
  [][ /\ globals' = globals
      /\ \A i \in CallIds :
           calls'[i].response.kind = "category" =>
             calls'[i].response.body =
               Sequential(calls'[i].frontend, calls'[i].resume_text)
      /\ \A i, j \in CallIds :
           (i # j /\ calls'[i] # calls[i]) => calls'[j] = calls[j] ]_vars

C9_Witness ==
  \E i, j \in CallIds :
    /\ calls[i].response = [kind |-> "category", body |-> "HR"]
    /\ calls[j].response = [kind |-> "category", body |-> "Unknown"]
    /\ calls[i].resume_text = <<" ", "c">>
    /\ calls[j].resume_text = <<"c", ",", "R">>

HasAt(t, k, word) ==
  /\ k + Len(word) - 1 <= Len(t)
  /\ SubSeq(t, k, k + Len(word) - 1) = word

\* C10: the result of clean_resume holds no "RT", no "cc" and no "http"
\* followed at once by a non-whitespace character.
C10_NoRtCcUrl ==
  probe.pc = "cleaned" =>
    LET t == probe.clean_text
    IN  \A k \in DOMAIN t :
          /\ ~HasAt(t, k, <<"R", "T">>)
          /\ ~HasAt(t, k, <<"c", "c">>)
          /\ ~(/\ HasAt(t, k, <<"h", "t", "t", "p">>)
               /\ k + 4 <= Len(t)
               /\ t[k + 4] \notin WhitespaceChars)

C10_Witness ==
  /\ probe.pc = "cleaned" /\ probe.impl = "API"
  /\ probe.resume_text = <<"R", "#", "c", " ", "T">>
  /\ probe.clean_text = <<"R", " ", "T">>
====
